---- MODULE Spec2Model ----
(***************************************************************************)
(* Model of the repository-sync and commit-extraction pipeline of          *)
(* git-analyzer.py: git_pull_or_clone (pull, destroy-and-reclone fallback) *)
(* and analyze_real_git_commits (the per-repository driver loop and the    *)
(* author / time-window filter).                                           *)
(*                                                                         *)
(* Strings are sequences of one-character tokens, a URL is the sequence of *)
(* its "/"-separated segments, and time is counted in whole days.         *)
(***************************************************************************)
EXTENDS Integers, Sequences, FiniteSets, TLC

VARIABLES
    repo_urls,                    \* argument: the list of repository URLs
    company_identifier,           \* argument: the identifier to look for in authors
    months_back,                  \* argument: the lookback window in months
    remote,                       \* URL -> history served by that remote (newest first)
    fs,                           \* path under the deploy directory -> what is on disk
    pc,                           \* position of the driver / of the running sync call
    since_date,                   \* lower bound of the window, computed once
    idx,                          \* index of the list entry the for-loop is at
    repo,                         \* value returned by git_pull_or_clone: a path or None
    steps,                        \* sub-steps attempted by the current sync call
    syncCalls,                    \* list index -> number of git_pull_or_clone calls
    returned,                     \* per finished list entry: what its sync call returned
    pending,                      \* commits the iter_commits generator has yet to yield
    repo_commits_list,            \* matching commits collected for the current repository
    all_repo_commits_structured,  \* the accumulating report list
    result,                       \* the dictionary analyze_real_git_commits returns
    invocation,                   \* main's command line, INI file and resolved months
    previous_run                  \* commit_data of the run before this one, if any

vars == <<repo_urls, company_identifier, months_back, remote, fs, pc, since_date, idx,
          repo, steps, syncCalls, returned, pending, repo_commits_list,
          all_repo_commits_structured, result, invocation, previous_run>>

----------------------------------------------------------------------------
(* Bounds and program constants *)

MaxRepos == 2
MaxCommits == 2
Now == 100
DaysPerMonth == 30

None == <<"None">>

----------------------------------------------------------------------------
(* Strings *)

Lower(ch) ==
    CASE ch = "A" -> "a"
      [] ch = "C" -> "c"
      [] OTHER -> ch

LowerStr(s) == [k \in 1..Len(s) |-> Lower(s[k])]

\* Python's `needle in hay` on strings
Contains(needle, hay) ==
    \E k \in 0..(Len(hay) - Len(needle)) : SubSeq(hay, k + 1, k + Len(needle)) = needle

\* str.strip(): drop leading and trailing whitespace
IsSpace(ch) == ch \in {" ", "\n"}

RECURSIVE LStrip(_)
LStrip(s) == IF s # <<>> /\ IsSpace(Head(s)) THEN LStrip(Tail(s)) ELSE s

RECURSIVE RStrip(_)
RStrip(s) ==
    IF s # <<>> /\ IsSpace(s[Len(s)]) THEN RStrip(SubSeq(s, 1, Len(s) - 1)) ELSE s

Strip(s) == RStrip(LStrip(s))

\* datetime.fromtimestamp(t).isoformat(): "<date>T<time>" of the day t
IsoFormat(t) == <<t, "T">>

----------------------------------------------------------------------------
(* Repository URLs and the local path derived from them *)

U1 == << <<"h1">>, <<"x", ".git">> >>    \* h1/x.git
U2 == << <<"h2">>, <<"x">> >>            \* h2/x
U3 == << <<"h1">>, <<"y", ".git">> >>    \* h1/y.git

URLS == {U1, U2, U3}

\* repo_url.split("/")[-1].replace(".git", "")
RepoName(url) == SelectSeq(url[Len(url)], LAMBDA tok : tok # ".git")

\* os.path.join(deploy_target_dir, repo_name): a path is named by its last component
RepoPath(url) == RepoName(url)

PATHS == {RepoPath(u) : u \in URLS}

\* `if remote_url:` - the empty string splits into one empty segment
Truthy(url) == url # << <<>> >>

----------------------------------------------------------------------------
(* Commits and histories *)

AuthorByName == [name |-> <<"A", "c">>, email |-> <<"x", "@", "x">>]
AuthorByEmail == [name |-> <<"x">>, email |-> <<"x", "@", "a", "C">>]
AuthorOther == [name |-> <<"c", "a">>, email |-> <<"x", "@", "c">>]

Authors == {AuthorByName, AuthorByEmail, AuthorOther}

Identifiers == {<<"a", "c">>, <<"A", "C">>}

MonthsChoices == {1, 2}

\* A commit as the remote holds it, before it is given its hash.  Ages are days before
\* Now; cd and ad place the committer and the author timestamp around the boundary of
\* an m-month window.
ProtoCommit(m, parents, author, cd, ad) ==
    [parents |-> parents, author |-> author,
     committed_date |-> Now - (m * DaysPerMonth + cd),
     authored_date |-> Now - (m * DaysPerMonth + ad),
     message |-> <<" ", "m", "\n">>]

\* committer / author offsets from the boundary: both inside, both exactly on it, both
\* outside, and authored outside but committed inside (a rebased or cherry-picked commit)
DatePairs == {<<-1, -1>>, <<0, 0>>, <<1, 1>>, <<-1, 1>>}

ProtoCommits(m) ==
    {ProtoCommit(m, 1, a, d[1], d[2]) : a \in Authors, d \in DatePairs}
        \cup {ProtoCommit(m, 2, a, d[1], d[2]) : a \in {AuthorByName, AuthorOther},
                                                 d \in {<<-1, -1>>, <<1, 1>>}}

\* Histories are listed newest first; committer timestamps do not increase along the
\* walk (the order git's date-ordered traversal relies on).
Monotone(h) ==
    \A k \in 1..(Len(h) - 1) : h[k].committed_date >= h[k + 1].committed_date

ProtoHistories(m) ==
    {h \in UNION {[1..n -> ProtoCommits(m)] : n \in 0..MaxCommits} : Monotone(h)}

\* One short history for the runs that explore the sync paths
SyncHistory == <<ProtoCommit(1, 1, AuthorByName, -1, -1), ProtoCommit(1, 2, AuthorByName, -1, -1)>>

\* The history remote `url` serves: hashes name the remote and the position from the root
Served(url, proto) ==
    [k \in 1..Len(proto) |->
        [hexsha |-> <<url, Len(proto) - k + 1>>,
         parents |-> proto[k].parents,
         author |-> proto[k].author,
         committed_date |-> proto[k].committed_date,
         authored_date |-> proto[k].authored_date,
         message |-> proto[k].message]]

\* A working copy left by an earlier run that misses the newest commit
Stale(h) == IF h = <<>> THEN h ELSE Tail(h)

NoURL == <<>>
Absent == [kind |-> "absent", origin |-> NoURL, head |-> <<>>]
PlainDir == [kind |-> "dir", origin |-> NoURL, head |-> <<>>]
WorkingCopy(origin, head) == [kind |-> "repo", origin |-> origin, head |-> head]

\* os.path.exists(abs_repo_path)
Exists(path) == fs[path].kind # "absent"

----------------------------------------------------------------------------
(* The pure parts of analyze_real_git_commits *)

\* datetime.now() - timedelta(days=months_back * 30)
SinceDate(now, months) == now - months * DaysPerMonth

\* iter_commits without no_merges=True
IterCommitsWithMerges(head, since) ==
    SelectSeq(head, LAMBDA c : c.committed_date >= since)

\* repo.iter_commits(since=since_date, no_merges=True): git rev-list --since compares
\* the committer timestamp; --no-merges drops commits with more than one parent
IterCommits(head, since) ==
    SelectSeq(head, LAMBDA c : c.committed_date >= since /\ c.parents <= 1)

\* the substring tests without .lower()
MatchesCaseSensitive(identifier, c) ==
    \/ Contains(identifier, c.author.name)
    \/ Contains(identifier, c.author.email)

\* company_identifier.lower() in author_name.lower()
\*   or company_identifier.lower() in author_email.lower()
Matches(identifier, c) ==
    \/ Contains(LowerStr(identifier), LowerStr(c.author.name))
    \/ Contains(LowerStr(identifier), LowerStr(c.author.email))

CommitRecord(c) ==
    [hash |-> c.hexsha,
     author_name |-> c.author.name,
     author_email |-> c.author.email,
     date |-> IsoFormat(c.authored_date),
     message |-> Strip(c.message)]

SuccessEntry(url, commits) ==
    [repo_name |-> RepoName(url), repo_url |-> url, commits |-> commits]

ErrorEntry(url, error) ==
    [repo_name |-> RepoName(url), repo_url |-> url, error |-> error, commits |-> <<>>]

\* str(e) of the AttributeError raised by None.iter_commits(...)
NoneTypeDetail == "'NoneType' object has no attribute 'iter_commits'"

ProcessingError(detail) == <<"Error processing commits", detail>>
CommitLogError(detail) == <<"Failed to get commit log", detail>>
----------------------------------------------------------------------------
(* Initial states: the arguments of one call and the world it runs in *)

Lists(urls, lo, hi) == UNION {[1..n -> urls] : n \in lo..hi}

\* What an earlier run may have left at `path`: nothing, a directory that is no working
\* copy, or a clone of a URL that maps to this path, up to date or one commit behind
LeftAt(path, rem) ==
    {Absent, PlainDir}
        \cup UNION {{WorkingCopy(o, rem[o]), WorkingCopy(o, Stale(rem[o]))} :
                        o \in {u \in URLS : RepoPath(u) = path}}

Disks(rem) == {d \in [PATHS -> UNION {LeftAt(p, rem) : p \in PATHS}] :
                    \A p \in PATHS : d[p] \in LeftAt(p, rem)}

\* analyze_real_git_commits is called directly, not through main
Direct == [called |-> "directly"]

\* the call has not started: nothing computed, nothing collected
Entered ==
    /\ pc = "start"
    /\ since_date = Now
    /\ idx = 0
    /\ repo = None
    /\ steps = <<>>
    /\ syncCalls = [i \in 1..Len(repo_urls) |-> 0]
    /\ returned = <<>>
    /\ pending = <<>>
    /\ repo_commits_list = <<>>
    /\ all_repo_commits_structured = <<>>
    /\ result = [returned |-> FALSE]
    /\ previous_run = <<>>

\* Runs over every URL list and every disk, one fixed history
Init ==
    /\ repo_urls \in Lists(URLS, 0, MaxRepos)
    /\ months_back = 1
    /\ company_identifier = <<"a", "c">>
    /\ remote = [u \in URLS |-> Served(u, SyncHistory)]
    /\ fs \in Disks(remote)
    /\ invocation = Direct
    /\ Entered

ExtractDisks(rem) ==
    {d \in Disks(rem) : /\ d[RepoPath(U1)] \in {Absent, WorkingCopy(U1, Stale(rem[U1]))}
                        /\ d[RepoPath(U3)] = Absent}

\* Runs over one repository and every history
InitExtract ==
    /\ repo_urls = <<U1>>
    /\ months_back \in MonthsChoices
    /\ company_identifier \in Identifiers
    /\ \E proto \in ProtoHistories(months_back) :
          remote = [u \in URLS |-> Served(u, proto)]
    /\ fs \in ExtractDisks(remote)
    /\ invocation = Direct
    /\ Entered

\* Direct calls that also pass what the command line would have refused: an empty list,
\* an empty identifier, a window of zero or fewer months
InitDirect ==
    /\ repo_urls \in Lists(URLS, 0, 1)
    /\ months_back \in {-1, 0, 1}
    /\ company_identifier \in {<<>>, <<"a", "c">>}
    /\ remote = [u \in URLS |-> Served(u, SyncHistory)]
    /\ fs \in Disks(remote)
    /\ invocation = Direct
    /\ Entered

----------------------------------------------------------------------------
(* analyze_real_git_commits: set-up *)

repo_url == repo_urls[idx]
repo_path == RepoPath(repo_url)

\* makedirs succeeded; the window is computed once, before the loop
Setup ==
    /\ pc = "start"
    /\ since_date' = SinceDate(Now, months_back)
    /\ idx' = 1
    /\ pc' = "loop"
    /\ UNCHANGED <<repo_urls, company_identifier, months_back, remote, fs, repo, steps,
                   syncCalls, returned, pending, repo_commits_list,
                   all_repo_commits_structured, result, invocation, previous_run>>

\* os.makedirs raised: the outer handler returns an error dictionary
SetupFail ==
    /\ pc = "start"
    /\ result' = [error |-> <<"An unexpected error occurred", "makedirs">>]
    /\ pc' = "done"
    /\ UNCHANGED <<repo_urls, company_identifier, months_back, remote, fs, since_date,
                   idx, repo, steps, syncCalls, returned, pending, repo_commits_list,
                   all_repo_commits_structured, invocation, previous_run>>

\* The for-loop is exhausted
Finish ==
    /\ pc = "loop"
    /\ idx > Len(repo_urls)
    /\ result' = [commit_data |-> all_repo_commits_structured,
                  message |-> "Commit analysis complete."]
    /\ pc' = "done"
    /\ UNCHANGED <<repo_urls, company_identifier, months_back, remote, fs, since_date,
                   idx, repo, steps, syncCalls, returned, pending, repo_commits_list,
                   all_repo_commits_structured, invocation, previous_run>>

----------------------------------------------------------------------------
(* git_pull_or_clone *)

Did(step) == steps' = Append(steps, step)

\* git_pull_or_clone returns `value` to the driver.  Every exception raised inside it
\* is caught there, so the driver's handlers around the call never run and a failed
\* sync reaches the driver only as None.
Return(value) ==
    /\ repo' = value
    /\ returned' = Append(returned, value)
    /\ pc' = "analyze"

Goto(label) ==
    /\ pc' = label
    /\ UNCHANGED <<repo, returned>>

SyncFrame == <<repo_urls, company_identifier, months_back, remote, since_date, idx,
               pending, repo_commits_list, all_repo_commits_structured, result,
               invocation, previous_run>>

\* The driver calls git_pull_or_clone and Repo(abs_repo_path) opens a working copy
OpenWorkingCopy ==
    /\ pc = "loop"
    /\ idx <= Len(repo_urls)
    /\ fs[repo_path].kind = "repo"
    /\ syncCalls' = [syncCalls EXCEPT ![idx] = @ + 1]
    /\ steps' = <<"open_ok">>
    /\ Goto("pull")
    /\ UNCHANGED <<fs, SyncFrame>>

\* Repo(abs_repo_path) raises InvalidGitRepositoryError or NoSuchPathError
OpenNotARepo ==
    /\ pc = "loop"
    /\ idx <= Len(repo_urls)
    /\ fs[repo_path].kind # "repo"
    /\ syncCalls' = [syncCalls EXCEPT ![idx] = @ + 1]
    /\ steps' = <<"open_invalid">>
    /\ IF Truthy(repo_url) THEN Goto("clone") ELSE Return(None)
    /\ UNCHANGED <<fs, SyncFrame>>

\* repo.remotes.origin.pull() succeeds: the working copy now holds its origin's history
PullOk ==
    /\ pc = "pull"
    /\ fs' = [fs EXCEPT ![repo_path].head = remote[fs[repo_path].origin]]
    /\ Did("pull_ok")
    /\ Return(repo_path)
    /\ UNCHANGED <<syncCalls, SyncFrame>>

\* the re-clone goes ahead over the stale directory, without removing it
PullGitCommandErrorClonesOver ==
    /\ pc = "pull"
    /\ Did("pull_git_error")
    /\ IF Truthy(repo_url) THEN Goto("clone") ELSE Return(None)
    /\ UNCHANGED <<fs, syncCalls, SyncFrame>>

\* the pull raises GitCommandError
PullGitCommandError ==
    /\ pc = "pull"
    /\ Did("pull_git_error")
    /\ IF Truthy(repo_url)
         THEN Goto(IF Exists(repo_path) THEN "rmtree" ELSE "clone")
         ELSE Return(None)
    /\ UNCHANGED <<fs, syncCalls, SyncFrame>>

\* the pull step raises anything else (for instance the working copy has no remote
\* named origin): the top-level handler returns None
PullUnexpected ==
    /\ pc = "pull"
    /\ Did("pull_unexpected")
    /\ Return(None)
    /\ UNCHANGED <<fs, syncCalls, SyncFrame>>

\* shutil.rmtree(abs_repo_path) succeeds
RemoveOk ==
    /\ pc = "rmtree"
    /\ fs' = [fs EXCEPT ![repo_path] = Absent]
    /\ Did("rmtree_ok")
    /\ Goto("clone")
    /\ UNCHANGED <<syncCalls, SyncFrame>>

\* the removal failure is logged but the re-clone goes ahead
RemoveOSErrorThenClone ==
    /\ pc = "rmtree"
    /\ Did("rmtree_failed")
    /\ Goto("clone")
    /\ UNCHANGED <<fs, syncCalls, SyncFrame>>

\* shutil.rmtree raises OSError, leaving the tree untouched or partly removed
RemoveOSError ==
    /\ pc = "rmtree"
    /\ \E left \in {fs[repo_path], PlainDir} : fs' = [fs EXCEPT ![repo_path] = left]
    /\ Did("rmtree_failed")
    /\ Return(None)
    /\ UNCHANGED <<syncCalls, SyncFrame>>

\* _perform_clone: Repo.clone_from succeeds
CloneOk ==
    /\ pc = "clone"
    /\ fs' = [fs EXCEPT ![repo_path] = WorkingCopy(repo_url, remote[repo_url])]
    /\ Did("clone_ok")
    /\ Return(repo_path)
    /\ UNCHANGED <<syncCalls, SyncFrame>>

\* _perform_clone: Repo.clone_from raises (GitCommandError or anything else)
CloneFail ==
    /\ pc = "clone"
    /\ Did("clone_failed")
    /\ Return(None)
    /\ UNCHANGED <<fs, syncCalls, SyncFrame>>

----------------------------------------------------------------------------
(* analyze_real_git_commits: extraction *)

DriverFrame == <<repo_urls, company_identifier, months_back, remote, fs, since_date,
                 repo, steps, syncCalls, returned, result, invocation, previous_run>>

NextRepository(entry) ==
    /\ all_repo_commits_structured' = Append(all_repo_commits_structured, entry)
    /\ idx' = idx + 1
    /\ pc' = "loop"

\* a failed sync skips to the next repository without an entry
AnalyzeNoneSkip ==
    /\ pc = "analyze"
    /\ repo = None
    /\ idx' = idx + 1
    /\ pc' = "loop"
    /\ UNCHANGED <<all_repo_commits_structured, pending, repo_commits_list, DriverFrame>>

\* a failed sync sends the loop back to the same list entry
AnalyzeNoneRetries ==
    /\ pc = "analyze"
    /\ repo = None
    /\ pc' = "loop"
    /\ UNCHANGED <<idx, all_repo_commits_structured, pending, repo_commits_list,
                   DriverFrame>>

\* git_pull_or_clone returned None: None.iter_commits raises AttributeError, which the
\* generic handler of the extraction block turns into an entry
AnalyzeNone ==
    /\ pc = "analyze"
    /\ repo = None
    /\ NextRepository(ErrorEntry(repo_url, ProcessingError(NoneTypeDetail)))
    /\ UNCHANGED <<pending, repo_commits_list, DriverFrame>>

\* repo.iter_commits(...) starts on the working copy that was returned
AnalyzeStart ==
    /\ pc = "analyze"
    /\ repo # None
    /\ pending' = IterCommits(fs[repo].head, since_date)
    /\ repo_commits_list' = <<>>
    /\ pc' = "iter"
    /\ UNCHANGED <<idx, all_repo_commits_structured, DriverFrame>>

\* one pass of the for-loop over the generator
IterStep ==
    /\ pc = "iter"
    /\ pending # <<>>
    /\ repo_commits_list' =
           IF Matches(company_identifier, Head(pending))
             THEN Append(repo_commits_list, CommitRecord(Head(pending)))
             ELSE repo_commits_list
    /\ pending' = Tail(pending)
    /\ UNCHANGED <<pc, idx, all_repo_commits_structured, DriverFrame>>

\* the generator is exhausted
IterDone ==
    /\ pc = "iter"
    /\ pending = <<>>
    /\ NextRepository(SuccessEntry(repo_url, repo_commits_list))
    /\ UNCHANGED <<pending, repo_commits_list, DriverFrame>>

\* the failure handler lets the exception reach the outer handler, ending the run
IterGitCommandErrorAborts ==
    /\ pc = "iter"
    /\ result' = [error |-> <<"An unexpected error occurred", "GitCommandError">>]
    /\ pc' = "done"
    /\ UNCHANGED <<repo_urls, company_identifier, months_back, remote, fs, since_date,
                   idx, repo, steps, syncCalls, returned, pending, repo_commits_list,
                   all_repo_commits_structured, invocation, previous_run>>

\* the git process behind the generator fails, at any point of the iteration
IterGitCommandError ==
    /\ pc = "iter"
    /\ NextRepository(ErrorEntry(repo_url, CommitLogError("GitCommandError")))
    /\ UNCHANGED <<pending, repo_commits_list, DriverFrame>>

\* the handler reports the error together with what was collected so far
IterUnexpectedKeepsPartial ==
    /\ pc = "iter"
    /\ NextRepository([ErrorEntry(repo_url, ProcessingError("Exception"))
                           EXCEPT !.commits = repo_commits_list])
    /\ UNCHANGED <<pending, repo_commits_list, DriverFrame>>

\* anything else raised while iterating or reading a commit
IterUnexpected ==
    /\ pc = "iter"
    /\ NextRepository(ErrorEntry(repo_url, ProcessingError("Exception")))
    /\ UNCHANGED <<pending, repo_commits_list, DriverFrame>>

----------------------------------------------------------------------------
(* main: resolving the arguments from the INI file, the command line and the prompts *)

\* an optional value: None, or the value given
NotGiven(default) == [given |-> FALSE, value |-> default]
Given(v) == [given |-> TRUE, value |-> v]

\* pieces of a comma-separated string: the empty string and a run of blanks
EmptyItem == << <<>> >>
Blank == << <<" ">> >>
PaddedU1 == << <<" ", "h1">>, <<"x", ".git", " ">> >>

\* url.strip() on one piece of a comma-separated string
StripItem(item) ==
    IF Len(item) = 1
      THEN <<Strip(item[1])>>
      ELSE <<LStrip(item[1])>> \o SubSeq(item, 2, Len(item) - 1) \o <<RStrip(item[Len(item)])>>

\* [url.strip() for url in s.split(",") if url.strip()]
SplitUrls(items) ==
    SelectSeq([k \in 1..Len(items) |-> StripItem(items[k])], Truthy)

\* truth value of a comma-separated string: only "" is falsy
StrTruthy(items) == items # <<EmptyItem>>

\* load_config_from_ini: None when reading raises (unparsable file, months_back that is
\* no integer), an empty dictionary without a [GitConfig] section, else the settings
LoadConfigFromIni(ini) ==
    IF ini.kind = "unreadable" \/ (ini.kind = "section" /\ ini.months_back = "bad")
      THEN [kind |-> "None"]
    ELSE IF ini.kind = "no_section"
      THEN [kind |-> "empty"]
    ELSE [kind |-> "dict",
          repo_urls |-> SplitUrls(ini.repo_urls),
          company_identifier |-> Strip(ini.company_identifier),
          months_back |-> IF ini.months_back = "missing"
                            THEN NotGiven(0) ELSE Given(ini.months_value)]

IniFiles ==
    {[kind |-> k] : k \in {"unreadable", "no_section"}}
        \cup [kind : {"section"},
              repo_urls : {<<EmptyItem>>, <<U1>>},
              company_identifier : {<<>>, <<"a", "c", " ">>},
              months_back : {"missing", "bad", "int"},
              months_value : {0, 1}]

CommandLines ==
    [config_file : BOOLEAN,
     repo_urls : {NotGiven(<<>>), Given(<<Blank>>), Given(<<PaddedU1, Blank>>)},
     company_identifier : {NotGiven(<<>>), Given(<<" ">>), Given(<<" ", "a", "c">>)},
     months_back : {NotGiven(0), Given(-1), Given(0), Given(1)}]

\* what the user may type at the three prompts
UrlAnswers == {<<Blank>>, <<U1>>}
CompanyAnswers == {<<" ">>, <<"a", "c">>}
MonthsAnswers == {[int |-> FALSE, value |-> 0]} \cup [int : {TRUE}, value : {-1, 0, 1}]

\* main is started; analyze_real_git_commits has not been called
InitMain ==
    /\ \E args \in CommandLines, ini \in IniFiles :
          /\ ~args.config_file => ini.kind = "no_section"
          /\ (ini.kind = "section" /\ ini.months_back # "int") => ini.months_value = 0
          /\ invocation = [called |-> "by main", args |-> args, ini |-> ini,
                           months_back |-> NotGiven(0)]
    /\ repo_urls = <<>>
    /\ company_identifier = <<>>
    /\ months_back = 0
    /\ remote = [u \in URLS |-> Served(u, SyncHistory)]
    /\ fs \in {d \in Disks(remote) : d[RepoPath(U3)] = Absent /\ d[RepoPath(U1)].origin # U2}
    /\ pc = "main"
    /\ since_date = Now
    /\ idx = 0
    /\ repo = None
    /\ steps = <<>>
    /\ syncCalls = <<>>
    /\ returned = <<>>
    /\ pending = <<>>
    /\ repo_commits_list = <<>>
    /\ all_repo_commits_structured = <<>>
    /\ result = [returned |-> FALSE]
    /\ previous_run = <<>>

MainFrame == <<remote, fs, since_date, idx, repo, steps, returned, pending,
               repo_commits_list, all_repo_commits_structured, result, previous_run>>

\* the INI file, when given and loaded, replaces the command-line values; otherwise the
\* command-line values that are set are taken
MainResolve ==
    /\ pc = "main"
    /\ LET args == invocation.args
           config_data == LoadConfigFromIni(invocation.ini)
           config_loaded_successfully == args.config_file /\ config_data.kind = "dict"
       IN  /\ repo_urls' =
                 IF config_loaded_successfully THEN config_data.repo_urls
                 ELSE IF args.repo_urls.given /\ StrTruthy(args.repo_urls.value)
                   THEN SplitUrls(args.repo_urls.value)
                 ELSE <<>>
           /\ company_identifier' =
                 IF config_loaded_successfully THEN config_data.company_identifier
                 ELSE IF args.company_identifier.given /\ args.company_identifier.value # <<>>
                   THEN Strip(args.company_identifier.value)
                 ELSE <<>>
           /\ invocation' =
                 [invocation EXCEPT !.months_back =
                     IF config_loaded_successfully THEN config_data.months_back
                     ELSE args.months_back]
    /\ pc' = "main_urls"
    /\ UNCHANGED <<months_back, syncCalls, MainFrame>>

\* `if not repo_urls:` prompt for them; still none: main returns
MainUrls ==
    /\ pc = "main_urls"
    /\ \E answer \in UrlAnswers :
          repo_urls' = IF repo_urls = <<>> THEN SplitUrls(answer) ELSE repo_urls
    /\ pc' = IF repo_urls' = <<>> THEN "exit" ELSE "main_company"
    /\ UNCHANGED <<company_identifier, months_back, invocation, syncCalls, MainFrame>>

\* `if not company_identifier:` prompt for it; still empty: main returns
MainCompany ==
    /\ pc = "main_company"
    /\ \E answer \in CompanyAnswers :
          company_identifier' =
              IF company_identifier = <<>> THEN Strip(answer) ELSE company_identifier
    /\ pc' = IF company_identifier' = <<>> THEN "exit" ELSE "main_months"
    /\ UNCHANGED <<repo_urls, months_back, invocation, syncCalls, MainFrame>>

\* `if months_back is None:` ask until a positive integer is typed
MainPromptMonths ==
    /\ pc = "main_months"
    /\ ~invocation.months_back.given
    /\ \E answer \in MonthsAnswers :
          invocation' =
              IF answer.int /\ answer.value > 0
                THEN [invocation EXCEPT !.months_back = Given(answer.value)]
                ELSE invocation
    /\ UNCHANGED <<repo_urls, company_identifier, months_back, pc, syncCalls, MainFrame>>

\* analyze_real_git_commits(repo_urls, company_identifier, months_back, deploy_dir)
MainCalls ==
    /\ pc = "main_months"
    /\ invocation.months_back.given
    /\ months_back' = invocation.months_back.value
    /\ syncCalls' = [i \in 1..Len(repo_urls) |-> 0]
    /\ pc' = "start"
    /\ UNCHANGED <<repo_urls, company_identifier, invocation, MainFrame>>

main == MainResolve \/ MainUrls \/ MainCompany \/ MainPromptMonths \/ MainCalls

----------------------------------------------------------------------------
(* the program is run a second time *)

\* `main()` once more, right after a run that returned its report: same arguments, same
\* instant for the time window, the remotes as they were, the deploy directory as the
\* first run left it
Rerun ==
    /\ pc = "done"
    /\ "commit_data" \in DOMAIN result
    /\ previous_run = <<>>
    /\ previous_run' = result.commit_data
    /\ pc' = "start"
    /\ idx' = 0
    /\ repo' = None
    /\ steps' = <<>>
    /\ syncCalls' = [i \in 1..Len(repo_urls) |-> 0]
    /\ returned' = <<>>
    /\ pending' = <<>>
    /\ repo_commits_list' = <<>>
    /\ all_repo_commits_structured' = <<>>
    /\ result' = [returned |-> FALSE]
    /\ UNCHANGED <<repo_urls, company_identifier, months_back, remote, fs, since_date,
                   invocation>>

----------------------------------------------------------------------------

git_pull_or_clone ==
    \/ OpenWorkingCopy
    \/ OpenNotARepo
    \/ PullOk
    \/ PullGitCommandError
    \/ PullUnexpected
    \/ RemoveOk
    \/ RemoveOSError
    \/ CloneOk
    \/ CloneFail

analyze_real_git_commits ==
    \/ Setup
    \/ SetupFail
    \/ Finish
    \/ AnalyzeNone
    \/ AnalyzeStart
    \/ IterStep
    \/ IterDone
    \/ IterGitCommandError
    \/ IterUnexpected

Next == git_pull_or_clone \/ analyze_real_git_commits

Spec == Init /\ [][Next]_vars

SpecExtract == InitExtract /\ [][Next]_vars

SpecDirect == InitDirect /\ [][Next]_vars

SpecMain == InitMain /\ [][main \/ Next]_vars

SpecRerun == Init /\ [][Rerun \/ Next]_vars
----------------------------------------------------------------------------
(* Properties *)

HasError(e) == "error" \in DOMAIN e
HasCommits(e) == "commits" \in DOMAIN e

Last(s) == s[Len(s)]

SetupDone == idx >= 1
Returned == pc = "done" /\ SetupDone

\* the sync call of the current (or last finished) list entry has returned
SyncReturned == pc = "analyze" /\ steps # <<>>

Attempts(step) == Cardinality({k \in 1..Len(steps) : steps[k] = step})
CloneAttempts == Attempts("clone_ok") + Attempts("clone_failed")
PullFailed == Attempts("pull_git_error") + Attempts("pull_unexpected") > 0

\* C1: whenever the set-up succeeded, the run returns a commit_data list with exactly
\* one entry per input URL, in input order, whatever syncs and extractions failed; while
\* the loop runs the list holds one entry per repository already passed.
C1_OneEntryPerUrl ==
    /\ pc = "loop" => Len(all_repo_commits_structured) = idx - 1
    /\ Returned =>
        /\ "commit_data" \in DOMAIN result
        /\ Len(result.commit_data) = Len(repo_urls)
        /\ \A i \in 1..Len(repo_urls) : result.commit_data[i].repo_url = repo_urls[i]

\* a finished run over a full-length list in which one repository failed and one did not
C1_Witness ==
    /\ Returned
    /\ Len(repo_urls) = MaxRepos
    /\ \E i, j \in 1..Len(all_repo_commits_structured) :
          /\ HasError(all_repo_commits_structured[i])
          /\ ~HasError(all_repo_commits_structured[j])

\* C2: when a sync call found a working copy and its pull failed, for whatever reason,
\* and a remote URL was given, the call went on to remove the directory and, the
\* removal having succeeded, attempted exactly one clone.
C2_PullFailureReclones ==
    (SyncReturned /\ PullFailed /\ Truthy(repo_url)) =>
        /\ Attempts("rmtree_ok") + Attempts("rmtree_failed") = 1
        /\ Attempts("rmtree_ok") = 1 => CloneAttempts = 1

\* C3: once the removal of the stale working copy has failed, the sync call attempts
\* nothing more - in particular no clone - and returns None.
C3_CleanupFailureShortCircuits ==
    \A k \in 1..Len(steps) :
        steps[k] = "rmtree_failed" =>
            /\ k = Len(steps)
            /\ pc \in {"analyze", "loop", "done"}
            /\ repo = None
            /\ Last(returned) = None

\* a sync call that ended on a failed removal, reported as an error entry
C3_Witness ==
    /\ pc = "loop"
    /\ steps # <<>>
    /\ Last(steps) = "rmtree_failed"
    /\ fs[RepoPath(repo_urls[idx - 1])].kind = "repo"
    /\ HasError(Last(all_repo_commits_structured))

\* the kind of sync error the last sub-step of a failed sync stands for
SyncErrorKind(step) ==
    CASE step = "clone_failed" -> "Clone"
      [] step = "rmtree_failed" -> "Cleanup"
      [] OTHER -> "Unexpected"

\* the kind of error an entry's message reports
ReportedKind(error) ==
    CASE error[1] = "Failed to clone" -> "Clone"
      [] error[1] = "Failed to remove" -> "Cleanup"
      [] error[1] = "An unexpected error occurred during cloning" -> "Unexpected"
      [] OTHER -> "Extract"

\* C4: the entry of a repository whose sync failed carries, as its error, the kind of
\* the sub-step that failed: Clone, Cleanup or Unexpected.
C4_EntryCarriesSyncReason ==
    (pc = "loop" /\ idx > 1 /\ Last(returned) = None) =>
        LET e == Last(all_repo_commits_structured)
        IN  /\ HasError(e)
            /\ ReportedKind(e.error) = SyncErrorKind(Last(steps))

\* C5: a repository whose sync returned None has exactly one entry, with an error and an
\* empty commit sequence, and git_pull_or_clone was called once for its list entry; no
\* list entry is ever synced twice.
C5_FailedSyncOneErrorEntry ==
    /\ \A i \in 1..Len(repo_urls) :
          /\ syncCalls[i] <= 1
          /\ i <= Len(returned) => syncCalls[i] = 1
    /\ Len(all_repo_commits_structured) \in {Len(returned), Len(returned) - 1}
    /\ pc \in {"loop", "done"} => Len(all_repo_commits_structured) = Len(returned)
    /\ \A i \in 1..Len(all_repo_commits_structured) :
          returned[i] = None =>
              LET e == all_repo_commits_structured[i]
              IN  /\ e.repo_url = repo_urls[i]
                  /\ HasError(e)
                  /\ HasCommits(e)
                  /\ e.commits = <<>>

\* a finished run in which a sync failed
C5_Witness ==
    /\ Returned
    /\ \E i \in 1..Len(returned) : returned[i] = None

\* C6: every entry carries exactly one of the fields commits and error.
C6_ExactlyOneOfCommitsError ==
    \A i \in 1..Len(all_repo_commits_structured) :
        HasError(all_repo_commits_structured[i]) # HasCommits(all_repo_commits_structured[i])

\* C6 (amended): every entry carries a commits field, and an entry that carries an error
\* field has an empty commit sequence.
C6_ErrorImpliesNoCommits ==
    \A i \in 1..Len(all_repo_commits_structured) :
        LET e == all_repo_commits_structured[i]
        IN  /\ HasCommits(e)
            /\ HasError(e) => Len(e.commits) = 0

\* a report with an error entry next to an entry with commits
C6_Witness ==
    \E i, j \in 1..Len(all_repo_commits_structured) :
        /\ HasError(all_repo_commits_structured[i])
        /\ ~HasError(all_repo_commits_structured[j])
        /\ all_repo_commits_structured[j].commits # <<>>
\* the commit of the remotes that a reported hash names
CommitOf(hash) == remote[hash[1]][Len(remote[hash[1]]) - hash[2] + 1]

\* the entry the driver has just appended, and the working copy it was extracted from
JustAppended == pc = "loop" /\ idx > 1
LastEntry == Last(all_repo_commits_structured)
LastHead == fs[RepoPath(LastEntry.repo_url)].head

\* identifier occurs in s, letter case ignored
OccursIn(identifier, s) ==
    \E k \in 1..(Len(s) + 1) :
        /\ k + Len(identifier) - 1 <= Len(s)
        /\ \A j \in 1..Len(identifier) : Lower(s[k + j - 1]) = Lower(identifier[j])

ByCompany(c) ==
    \/ OccursIn(company_identifier, c.author.name)
    \/ OccursIn(company_identifier, c.author.email)

\* inside the window as the traversal applies it
InWindow(c) == c.committed_date >= since_date

Hashes(commits) == [k \in 1..Len(commits) |-> commits[k].hash]

\* C7: no commit with two or more parents appears in a commit sequence, neither in the
\* one being collected nor in any entry of the report.
C7_NoMergeInReport ==
    /\ \A k \in 1..Len(repo_commits_list) : CommitOf(repo_commits_list[k].hash).parents < 2
    /\ \A i \in 1..Len(all_repo_commits_structured) :
          \A k \in 1..Len(all_repo_commits_structured[i].commits) :
              CommitOf(all_repo_commits_structured[i].commits[k].hash).parents < 2

\* a successful extraction with commits from a working copy that holds an in-window merge
\* by a matching author
C7_Witness ==
    /\ JustAppended
    /\ ~HasError(LastEntry)
    /\ LastEntry.commits # <<>>
    /\ \E k \in 1..Len(LastHead) :
          LastHead[k].parents >= 2 /\ InWindow(LastHead[k]) /\ ByCompany(LastHead[k])

\* C8: on success the commit sequence is, in traversal order, exactly the in-window
\* non-merge commits of the working copy whose author name or author email contains
\* company_identifier, letter case ignored.
C8_ExactlyTheMatchingCommits ==
    (JustAppended /\ ~HasError(LastEntry)) =>
        LET expected == SelectSeq(LastHead,
                            LAMBDA c : c.parents < 2 /\ InWindow(c) /\ ByCompany(c))
        IN  /\ Hashes(LastEntry.commits) = [k \in 1..Len(expected) |-> expected[k].hexsha]
            /\ \A k \in 1..Len(expected) :
                  /\ LastEntry.commits[k].author_name = expected[k].author.name
                  /\ LastEntry.commits[k].author_email = expected[k].author.email

\* two in-window non-merge commits, of which only the second is kept, on its email alone
\* and in another letter case than the identifier's
C8_Witness ==
    /\ JustAppended
    /\ ~HasError(LastEntry)
    /\ Len(LastHead) = 2
    /\ \A k \in 1..2 : LastHead[k].parents < 2 /\ InWindow(LastHead[k])
    /\ Len(LastEntry.commits) = 1
    /\ LastEntry.commits[1].hash = LastHead[2].hexsha
    /\ ~OccursIn(company_identifier, LastEntry.commits[1].author_name)
    /\ ~Contains(company_identifier, LastEntry.commits[1].author_email)

\* C9: since_date is now minus 30 days per month, and on success a non-merge commit of a
\* matching author is in the commit sequence exactly if its authored time is not before
\* since_date.
C9_WindowByAuthoredTime ==
    /\ SetupDone => since_date = Now - months_back * 30
    /\ (JustAppended /\ ~HasError(LastEntry)) =>
          \A k \in 1..Len(LastHead) :
              (LastHead[k].parents < 2 /\ ByCompany(LastHead[k])) =>
                  ((\E n \in 1..Len(LastEntry.commits) :
                        LastEntry.commits[n].hash = LastHead[k].hexsha)
                    <=> LastHead[k].authored_date >= since_date)

\* C10: the step that ends a repository's iteration appends one entry and moves to the
\* next list entry; unless the generator was exhausted without failure the entry carries
\* an error, and an entry with an error carries none of the collected commits.  Every
\* run that got past the set-up ends having synced every list entry.
C10_StepIsolated ==
    (pc = "iter" /\ pc' # "iter") =>
        /\ pc' = "loop"
        /\ idx' = idx + 1
        /\ Len(all_repo_commits_structured') = Len(all_repo_commits_structured) + 1
        /\ SubSeq(all_repo_commits_structured', 1, Len(all_repo_commits_structured))
              = all_repo_commits_structured
        /\ LET e == all_repo_commits_structured'[Len(all_repo_commits_structured')]
           IN  /\ HasError(e) \/ (pending = <<>> /\ e.commits = repo_commits_list)
               /\ HasError(e) => e.commits = <<>>

\* C10: extraction is all-or-nothing per repository (the step property above) and a
\* failure in one repository does not keep any later repository from being processed.
C10_AllOrNothingAndIsolated ==
    /\ [][C10_StepIsolated]_vars
    /\ [](Returned => \A i \in 1..Len(repo_urls) : syncCalls[i] = 1)

\* an extraction failed after a matching commit had been collected, and a later
\* repository is still to be processed
C10_Witness ==
    /\ JustAppended
    /\ idx <= Len(repo_urls)
    /\ HasError(LastEntry)
    /\ LastEntry.error[1] = "Failed to get commit log"
    /\ repo_commits_list # <<>>

\* the arguments the spec calls run-level fatal
InvalidInput == repo_urls = <<>> \/ company_identifier = <<>> \/ months_back <= 0

\* C11: called with an empty list, an empty identifier or a non-positive months_back,
\* analyze_real_git_commits syncs no repository and returns an error dictionary.
C11_RejectsInvalidInput ==
    InvalidInput =>
        /\ \A i \in 1..Len(repo_urls) : syncCalls[i] = 0
        /\ pc = "done" => "error" \in DOMAIN result

CalledByMain == invocation.called = "by main" /\ pc \notin {"main", "main_urls", "main_company", "main_months", "exit"}

\* C12: whatever the INI file, the command line and the prompt answers are, main calls
\* analyze_real_git_commits only with a non-empty list, a non-empty identifier and a
\* positive months_back.
C12_MainValidatesBeforeCalling ==
    CalledByMain =>
        /\ repo_urls # <<>>
        /\ company_identifier # <<>>
        /\ months_back > 0

\* the second run has just appended the entry of a repository it synced by a successful pull
RerunPulled ==
    /\ JustAppended
    /\ idx - 1 <= Len(previous_run)
    /\ steps = <<"open_ok", "pull_ok">>

\* C13: in a second run right after the first (same arguments, same window, unchanged
\* remotes), a repository that the second run syncs by a successful pull and that both
\* runs report without error has the same commit sequence in both reports.
C13_RerunSameCommits ==
    (RerunPulled /\ ~HasError(LastEntry) /\ ~HasError(previous_run[idx - 1]))
        => LastEntry.commits = previous_run[idx - 1].commits

PullSteps == {"pull_ok", "pull_git_error", "pull_unexpected"}
RemoveSteps == {"rmtree_ok", "rmtree_failed"}
CloneSteps == {"clone_ok", "clone_failed"}

\* C14: in the steps of one git_pull_or_clone call, a valid working copy is pulled
\* first, before any removal or clone; a successful pull ends the call, which returns the
\* working copy with nothing removed and nothing cloned; a clone attempt directly follows
\* either the finding that there is no valid working copy or the successful removal of the
\* stale directory; and no pull follows a clone attempt.
C14_PullFirst ==
    /\ (Len(steps) >= 2 /\ steps[1] = "open_ok") => steps[2] \in PullSteps
    /\ \A k \in 1..Len(steps) :
          /\ steps[k] \in PullSteps => (k = 2 /\ steps[1] = "open_ok")
          /\ steps[k] \in RemoveSteps => (k = 3 /\ steps[2] \in PullSteps)
          /\ steps[k] \in CloneSteps => (k > 1 /\ steps[k - 1] \in {"open_invalid", "rmtree_ok"})
          /\ steps[k] = "pull_ok" => k = Len(steps)
    /\ (SyncReturned /\ Last(steps) = "pull_ok") =>
          /\ repo = repo_path
          /\ fs[repo_path].kind = "repo"

C14_Witness ==
    /\ SyncReturned
    /\ steps = <<"open_ok", "pull_git_error", "rmtree_ok", "clone_ok">>
    /\ repo = repo_path

\* the remotes the commits of a report entry were taken from
Origins(entry) == {entry.commits[k].hash[1] : k \in 1..Len(entry.commits)}

\* C15: a list entry whose sync has started works on a path that no different URL of the
\* list is mapped to, and every report entry carries only commits of its own repo_url.
C15_OwnWorkingCopy ==
    /\ \A i, j \in 1..Len(repo_urls) :
          (syncCalls[i] > 0 /\ repo_urls[j] # repo_urls[i])
              => RepoPath(repo_urls[j]) # RepoPath(repo_urls[i])
    /\ \A k \in 1..Len(all_repo_commits_structured) :
          Origins(all_repo_commits_structured[k]) \subseteq {all_repo_commits_structured[k].repo_url}

====
